---- MODULE Spec2Model ----
(***************************************************************************)
(* Google Drive MCP server (src/src/gdrive_mcp_server/server.py).          *)
(*                                                                         *)
(* The process: main() constructs GoogleDriveClient, whose constructor     *)
(* resolves the stored credential (_get_credentials) and builds the Drive  *)
(* service; only then mcp.run() starts dispatching the two tools           *)
(* search_files and get_file to the client.                                *)
(*                                                                         *)
(* Python dicts are modelled as functions (records) whose DOMAIN is the    *)
(* set of keys present; strings that the claims inspect (error messages)   *)
(* are sequences of words; an exception is a record [type, msg].           *)
(***************************************************************************)
EXTENDS Integers, Sequences, FiniteSets, TLC

VARIABLES
    pc,               \* position of main(): start, load, validate, build, run, serving, aborted
    token_file,       \* the file at self.token_path (environment, fixed per run)
    loader_sequence,  \* local loader_sequence of _get_credentials
    attempts,         \* history: the loaders called so far, in call order
    creds,            \* local creds of _get_credentials: <<>> is None, <<c>> a credential
    refreshCalls,     \* history: number of creds.refresh(Request()) calls
    refreshOutcome,   \* history: how the refresh call ended ("none" if not called)
    raised,           \* the exception that left main() (NoError: none did)
    drive_client,     \* the global drive_client (None until constructed)
    served,           \* number of tool calls dispatched by mcp.run()
    failed,           \* number of served calls in which the provider raised
    fault,            \* TRUE once an exception escaped a tool to the protocol layer
    lastCall          \* the last tool call: its provider behaviour and its result

vars == <<pc, token_file, loader_sequence, attempts, creds, refreshCalls,
          refreshOutcome, raised, drive_client, served, failed, fault, lastCall>>

None == "None"

----------------------------------------------------------------------------
(* Bounds of the model *)

MaxFiles == 2     \* files in one provider listing response
MaxChunks == 2    \* chunks of one media download
MaxCalls == 2     \* tool calls served in one run

----------------------------------------------------------------------------
(* Generic helpers *)

Range(s) == {s[i] : i \in DOMAIN s}

SeqsUpTo(S, n) == UNION {[1..k -> S] : k \in 0..n}

\* dict.get(key, default)
DictGet(d, key, default) == IF key \in DOMAIN d THEN d[key] ELSE default

\* outcomes of a Python call: it returns a value or raises an exception
Return(v) == [kind |-> "return", value |-> v]
Raise(e) == [kind |-> "raise", exc |-> e]

Exc(type, msg) == [type |-> type, msg |-> msg]

NoError == Exc("none", <<>>)

\* str(exc)
Str(exc) == exc.msg

----------------------------------------------------------------------------
(* Credentials and the token file *)

\* google.oauth2 Credentials as the code reads them: token, expired, refresh_token
Credential == [token : {None, "tok"}, expired : BOOLEAN, refresh_token : {None, "rt"}]

\* creds.valid: an access token is present and it has not expired
Valid(c) == c.token # None /\ ~c.expired

Suffixes == {".json", ".pickle", ".pkl", ".txt"}

\* what the file holds: authorized-user JSON, a pickled Credentials object,
\* a pickle of some other object, or neither format
FileKinds == {"json", "pickle", "pickle_other", "garbage"}

TokenFile == [exists : BOOLEAN, suffix : Suffixes, kind : FileKinds, cred : Credential]

TOKEN_PATH == "<token_path>"

\* the remediation tool the messages name (src/.../auth_setup.py)
SetupTool == "auth_setup.py"

----------------------------------------------------------------------------
(* Error messages of _get_credentials, word by word *)

NotFoundMsg ==
    <<"Token", "file", "not", "found", "at", TOKEN_PATH, "Run", SetupTool, "first">>

CouldNotLoadMsg ==
    <<"Could", "not", "load", "token", "from", TOKEN_PATH,
      "Supported", "formats", ".json", ".pickle">>

RefreshFailedMsg(cause) ==
    <<"Error", "refreshing", "token">> \o cause \o <<"Please", "re-run", SetupTool>>

InvalidCredentialsMsg == <<"Invalid", "credentials", "Please", "run", SetupTool>>

----------------------------------------------------------------------------
(* The two loaders *)

\* Credentials.from_authorized_user_file succeeds on authorized-user JSON only;
\* every failure is re-raised as RuntimeError
_load_credentials_from_json(file) ==
    IF file.kind = "json"
    THEN Return(file.cred)
    ELSE Raise(Exc("RuntimeError", <<"Error", "loading", "token", "JSON", "file">>))

\* pickle.load succeeds on a pickle; the object must be a Credentials instance
_load_credentials_from_pickle(file) ==
    CASE file.kind = "pickle" -> Return(file.cred)
      [] file.kind = "pickle_other" ->
            Raise(Exc("RuntimeError",
                      <<"Error", "loading", "token", "pickle", "file",
                        "Pickle", "did", "not", "contain", "valid", "credentials">>))
      [] OTHER ->
            Raise(Exc("RuntimeError", <<"Error", "loading", "token", "pickle", "file">>))

CallLoader(loader, file) ==
    IF loader = "json" THEN _load_credentials_from_json(file)
                       ELSE _load_credentials_from_pickle(file)

\* faulty variant: the legacy format is always probed first
LoaderSequence_PickleFirst(suffix) == <<"pickle", "json">>

\* loader_sequence as chosen from the lower-cased suffix
LoaderSequence(suffix) ==
    IF suffix = ".json" THEN <<"json", "pickle">>
    ELSE IF suffix \in {".pickle", ".pkl"} THEN <<"pickle", "json">>
    ELSE <<"json", "pickle">>

\* faulty variant: a loader's exception is not swallowed; the loop stops at the first failure
RECURSIVE RunLoaders_NoFallback(_, _, _, _)
RunLoaders_NoFallback(seq, file, i, tried) ==
    IF i > Len(seq) THEN [creds |-> <<>>, attempts |-> tried]
    ELSE LET r == CallLoader(seq[i], file)
         IN  IF r.kind = "return"
             THEN [creds |-> <<r.value>>, attempts |-> Append(tried, seq[i])]
             ELSE [creds |-> <<>>, attempts |-> Append(tried, seq[i])]

\* for loader in loader_sequence: try: creds = loader(); break / except: continue
RECURSIVE RunLoaders(_, _, _, _)
RunLoaders(seq, file, i, tried) ==
    IF i > Len(seq) THEN [creds |-> <<>>, attempts |-> tried]
    ELSE LET r == CallLoader(seq[i], file)
         IN  IF r.kind = "return"
             THEN [creds |-> <<r.value>>, attempts |-> Append(tried, seq[i])]
             ELSE RunLoaders(seq, file, i + 1, Append(tried, seq[i]))

----------------------------------------------------------------------------
(* Validation and refresh *)

\* how creds.refresh(Request()) can end: it returns, raises RefreshError (the
\* token endpoint rejected the grant) or raises another exception (transport)
RefreshOK == [type |-> "ok", msg |-> <<>>]
RefreshOutcomes ==
    { RefreshOK,
      Exc("RefreshError", <<"invalid_grant">>),
      Exc("TransportError", <<"connection", "failed">>) }

\* creds.refresh mutates the credential in place
Refreshed(c) == [c EXCEPT !.token = "tok2", !.expired = FALSE]

\* faulty variant: a failed refresh is retried once before giving up
ValidateCredentials_Retry(c, r) ==
    IF Valid(c) THEN [out |-> Return(c), calls |-> 0, refresh |-> "none"]
    ELSE IF c.expired /\ c.refresh_token # None
    THEN IF r = RefreshOK
         THEN [out |-> Return(Refreshed(c)), calls |-> 1, refresh |-> r.type]
         ELSE [out |-> Raise(Exc("RuntimeError", RefreshFailedMsg(Str(r)))),
               calls |-> 2, refresh |-> r.type]
    ELSE [out |-> Raise(Exc("RuntimeError", InvalidCredentialsMsg)),
          calls |-> 0, refresh |-> "none"]

\* if not creds.valid: refresh when expired with a refresh token (wrapping
\* RefreshError only), else raise "Invalid credentials"; return creds
ValidateCredentials(c, r) ==
    IF Valid(c) THEN [out |-> Return(c), calls |-> 0, refresh |-> "none"]
    ELSE IF c.expired /\ c.refresh_token # None
    THEN IF r = RefreshOK
         THEN [out |-> Return(Refreshed(c)), calls |-> 1, refresh |-> r.type]
         ELSE IF r.type = "RefreshError"
         THEN [out |-> Raise(Exc("RuntimeError", RefreshFailedMsg(Str(r)))),
               calls |-> 1, refresh |-> r.type]
         ELSE [out |-> Raise(r), calls |-> 1, refresh |-> r.type]
    ELSE [out |-> Raise(Exc("RuntimeError", InvalidCredentialsMsg)),
          calls |-> 0, refresh |-> "none"]

----------------------------------------------------------------------------
(* The provider (Drive API) as the gateway sees it *)

FileFields == <<"id", "name", "mimeType", "webViewLink">>

\* files of a listing: with an extra provider field, with exactly the requested
\* fields, and with a requested field left out by the provider
ProviderItems ==
    { [id |-> "f1", name |-> "report", mimeType |-> "text/plain",
       webViewLink |-> "link1", kind |-> "drive#file"],
      [id |-> "f2", name |-> "notes", mimeType |-> "application/pdf",
       webViewLink |-> "link2"],
      [id |-> "f3", name |-> "draft", mimeType |-> "text/plain"] }

\* exceptions the provider client raises
ProviderErrors ==
    { Exc("HttpError", <<"HttpError", "403", "forbidden">>),
      Exc("TransportError", <<"connection", "reset">>) }

\* files().list(...).execute(): raises, or returns a response dict in which
\* "files" and "nextPageToken" are each present or absent
ListResponses ==
    { [files |-> fs] : fs \in SeqsUpTo(ProviderItems, MaxFiles) }
    \cup { [files |-> fs, nextPageToken |-> "page2"] :
             fs \in SeqsUpTo(ProviderItems, MaxFiles) }
    \cup { [nextPageToken |-> "page2"] }

ListBehaviours ==
    { [error |-> NoError, response |-> r] : r \in ListResponses }
    \cup { [error |-> e, response |-> [files |-> <<>>]] : e \in ProviderErrors }

\* bytes of a download: an ASCII byte and a byte that is never valid UTF-8
Bytes == {104, 255}

\* files().get(...).execute() raises or returns metadata; get_media(...) raises
\* or returns a request; next_chunk() returns the chunks one by one, the last
\* one reporting done, unless (fails) the call after the chunks given raises.
\* What the provider would have done after the first failure is never observed,
\* so each behaviour ends at its first failure.
FetchBehaviour(me, md, ge, cs, f) ==
    [metaError |-> me, metadata |-> md, mediaError |-> ge, chunks |-> cs, fails |-> f,
     chunkError |-> Exc("HttpError", <<"HttpError", "500", "backend">>)]

AnyItem == CHOOSE md \in ProviderItems : TRUE

FetchBehaviours ==
    { FetchBehaviour(me, AnyItem, NoError, <<>>, FALSE) : me \in ProviderErrors }
    \cup { FetchBehaviour(NoError, md,
                          Exc("HttpError", <<"HttpError", "404", "not", "found">>),
                          <<>>, FALSE) : md \in ProviderItems }
    \cup { FetchBehaviour(NoError, md, NoError, cs, FALSE) :
             md \in ProviderItems, cs \in (SeqsUpTo(Bytes, MaxChunks) \ {<<>>}) }
    \cup { FetchBehaviour(NoError, md, NoError, cs, TRUE) :
             md \in ProviderItems, cs \in SeqsUpTo(Bytes, MaxChunks - 1) }

----------------------------------------------------------------------------
(* Response reshaping *)

\* the first of the four fields a dict lacks (item["..."] raises KeyError on it)
MissingFields(item) == {i \in 1..Len(FileFields) : FileFields[i] \notin DOMAIN item}

FirstMissing(item) ==
    FileFields[CHOOSE i \in MissingFields(item) : \A j \in MissingFields(item) : i <= j]

KeyError(key) == Exc("KeyError", <<key>>)

\* the four-key dict built from a provider dict that has the four fields
Project(item) ==
    [id |-> item["id"], name |-> item["name"],
     mime_type |-> item["mimeType"], web_view_link |-> item["webViewLink"]]

\* faulty variant: the list comprehension loses the last item
_format_search_response_DropLast(response) ==
    LET items == DictGet(response, "files", <<>>)
        kept == IF Len(items) = 0 THEN items ELSE SubSeq(items, 1, Len(items) - 1)
    IN  Return([files |-> [i \in 1..Len(kept) |-> Project(kept[i])],
                next_page_token |-> DictGet(response, "nextPageToken", None)])

\* the comprehension over response.get("files", []) raises KeyError at the first
\* item lacking a field; otherwise files and next_page_token are returned
_format_search_response(response) ==
    LET items == DictGet(response, "files", <<>>)
        bad == {i \in 1..Len(items) : MissingFields(items[i]) # {}}
    IN  IF bad # {}
        THEN Raise(KeyError(FirstMissing(items[CHOOSE i \in bad : \A j \in bad : i <= j])))
        ELSE Return([files |-> [i \in 1..Len(items) |-> Project(items[i])],
                     next_page_token |-> DictGet(response, "nextPageToken", None)])

\* bytes.decode("utf-8", errors="replace"): U+FFFD for each undecodable byte
Decode(buffer) == [i \in 1..Len(buffer) |-> IF buffer[i] < 128 THEN buffer[i] ELSE 65533]

----------------------------------------------------------------------------
(* The two gateway operations.  Each yields the outcome of the call together
   with the provider calls it made, in order. *)

\* faulty variant: only the provider's HttpError is caught
CatchAll_OnlyHttpError(o) ==
    IF o.kind = "raise" /\ o.exc.type = "HttpError"
    THEN Return([error |-> Str(o.exc)])
    ELSE o

\* except Exception as exc: return {"error": str(exc)}
CatchAll(o) == IF o.kind = "raise" THEN Return([error |-> Str(o.exc)]) ELSE o

\* the try block of search_files: the list call, then the reshape
SearchBody(b) ==
    IF b.error # NoError THEN Raise(b.error) ELSE _format_search_response(b.response)

search_files(b) == [out |-> CatchAll(SearchBody(b)), calls |-> <<"list">>]

\* while not done: _, done = downloader.next_chunk()
RECURSIVE Download(_, _, _)
Download(b, i, buffer) ==
    IF i > Len(b.chunks) THEN [out |-> Raise(b.chunkError), n |-> i]
    ELSE IF i = Len(b.chunks) /\ ~b.fails
    THEN [out |-> Return(Append(buffer, b.chunks[i])), n |-> i]
    ELSE Download(b, i + 1, Append(buffer, b.chunks[i]))

NextChunks(n) == [i \in 1..n |-> "next_chunk"]

\* faulty variant: a failed chunk ends the loop and what was downloaded is returned
GetFileBody_Partial(b) ==
    IF b.metaError # NoError THEN [out |-> Raise(b.metaError), calls |-> <<"get">>]
    ELSE IF b.mediaError # NoError
    THEN [out |-> Raise(b.mediaError), calls |-> <<"get", "get_media">>]
    ELSE LET d == Download(b, 1, <<>>)
             calls == <<"get", "get_media">> \o NextChunks(d.n)
             got == IF d.out.kind = "raise" THEN SubSeq(b.chunks, 1, d.n - 1)
                    ELSE d.out.value
         IN  IF MissingFields(b.metadata) # {}
             THEN [out |-> Raise(KeyError(FirstMissing(b.metadata))), calls |-> calls]
             ELSE [out |-> Return([metadata |-> Project(b.metadata),
                                   content |-> Decode(got)]),
                   calls |-> calls]

\* the try block of get_file: metadata, media request, chunk loop, reshape
GetFileBody(b) ==
    IF b.metaError # NoError THEN [out |-> Raise(b.metaError), calls |-> <<"get">>]
    ELSE IF b.mediaError # NoError
    THEN [out |-> Raise(b.mediaError), calls |-> <<"get", "get_media">>]
    ELSE LET d == Download(b, 1, <<>>)
             calls == <<"get", "get_media">> \o NextChunks(d.n)
         IN  IF d.out.kind = "raise" THEN [out |-> d.out, calls |-> calls]
             ELSE IF MissingFields(b.metadata) # {}
             THEN [out |-> Raise(KeyError(FirstMissing(b.metadata))), calls |-> calls]
             ELSE [out |-> Return([metadata |-> Project(b.metadata),
                                   content |-> Decode(d.out.value)]),
                   calls |-> calls]

get_file(b) == [out |-> CatchAll(GetFileBody(b).out), calls |-> GetFileBody(b).calls]

----------------------------------------------------------------------------
(* The process *)

NoCall == [tool |-> "none"]

Init ==
    /\ pc = "start"
    /\ token_file \in TokenFile
    /\ loader_sequence = <<>>
    /\ attempts = <<>>
    /\ creds = <<>>
    /\ refreshCalls = 0
    /\ refreshOutcome = "none"
    /\ raised = NoError
    /\ drive_client = None
    /\ served = 0
    /\ failed = 0
    /\ fault = FALSE
    /\ lastCall = NoCall

\* faulty variant: the exception is swallowed and start-up goes on
Propagate_Swallowed(e) == raised' = e /\ pc' = "run"

\* an exception raised during construction leaves __init__ and main():
\* nothing catches it, the process ends before mcp.run()
Propagate(e) == raised' = e /\ pc' = "aborted"

\* _get_credentials, first part: the existence check and the loader ordering
CheckTokenFile ==
    /\ pc = "start"
    /\ IF ~token_file.exists
       THEN /\ Propagate(Exc("FileNotFoundError", NotFoundMsg))
            /\ UNCHANGED loader_sequence
       ELSE /\ loader_sequence' = LoaderSequence(token_file.suffix)
            /\ pc' = "load"
            /\ UNCHANGED raised
    /\ UNCHANGED <<token_file, attempts, creds, refreshCalls, refreshOutcome,
                   drive_client, served, failed, fault, lastCall>>

\* _get_credentials, second part: the loader loop and the "creds is None" check
LoadToken ==
    /\ pc = "load"
    /\ LET r == RunLoaders(loader_sequence, token_file, 1, <<>>)
       IN  /\ attempts' = r.attempts
           /\ creds' = r.creds
           /\ IF r.creds = <<>>
              THEN Propagate(Exc("RuntimeError", CouldNotLoadMsg))
              ELSE pc' = "validate" /\ UNCHANGED raised
    /\ UNCHANGED <<token_file, loader_sequence, refreshCalls, refreshOutcome,
                   drive_client, served, failed, fault, lastCall>>

\* _get_credentials, last part: validity, refresh, return
CheckValidity ==
    /\ pc = "validate"
    /\ \E r \in RefreshOutcomes :
         LET v == ValidateCredentials(creds[1], r)
         IN  /\ refreshCalls' = v.calls
             /\ refreshOutcome' = v.refresh
             /\ IF v.out.kind = "return"
                THEN creds' = <<v.out.value>> /\ pc' = "build" /\ UNCHANGED raised
                ELSE Propagate(v.out.exc) /\ UNCHANGED creds
    /\ UNCHANGED <<token_file, loader_sequence, attempts, drive_client, served,
                   failed, fault, lastCall>>

\* _get_service: build("drive", "v3", credentials=creds) returns the service or
\* raises; on return __init__ ends and main() binds the global drive_client
BuildService ==
    /\ pc = "build"
    /\ \E ok \in BOOLEAN :
         IF ok
         THEN drive_client' = "client" /\ pc' = "run" /\ UNCHANGED raised
         ELSE Propagate(Exc("HttpError", <<"discovery", "failed">>))
              /\ UNCHANGED drive_client
    /\ UNCHANGED <<token_file, loader_sequence, attempts, creds, refreshCalls,
                   refreshOutcome, served, failed, fault, lastCall>>

\* main(): mcp.run(transport=...) starts dispatching tool calls
RunServer ==
    /\ pc = "run"
    /\ pc' = "serving"
    /\ UNCHANGED <<token_file, loader_sequence, attempts, creds, refreshCalls,
                   refreshOutcome, raised, drive_client, served, failed, fault,
                   lastCall>>

\* one dispatched tool call: the record kept of it and the counters
Serve(tool, b, body, r) ==
    /\ lastCall' = [tool |-> tool, behaviour |-> b, raisedInside |-> body.kind = "raise",
                    out |-> r.out, calls |-> r.calls]
    /\ served' = served + 1
    /\ failed' = IF body.kind = "raise" THEN failed + 1 ELSE failed
    /\ fault' = (fault \/ r.out.kind = "raise")
    /\ UNCHANGED <<pc, token_file, loader_sequence, attempts, creds, refreshCalls,
                   refreshOutcome, raised, drive_client>>

\* the search_files tool: drive_client.search_files(query, page_size)
SearchFilesTool ==
    /\ pc = "serving"
    /\ served < MaxCalls
    /\ \E b \in ListBehaviours : Serve("search_files", b, SearchBody(b), search_files(b))

\* the get_file tool: drive_client.get_file(file_id)
GetFileTool ==
    /\ pc = "serving"
    /\ served < MaxCalls
    /\ \E b \in FetchBehaviours : Serve("get_file", b, GetFileBody(b).out, get_file(b))

Next ==
    \/ CheckTokenFile
    \/ LoadToken
    \/ CheckValidity
    \/ BuildService
    \/ RunServer
    \/ SearchFilesTool
    \/ GetFileTool

Spec == Init /\ [][Next]_vars

----------------------------------------------------------------------------
(* Vocabulary of the claims *)

\* the credential as the loader produced it (refresh mutates creds afterwards)
LoadedCredential == token_file.cred

\* the loader loop has run on an existing file
LoadersRan == token_file.exists /\ pc \notin {"start", "load"}

\* a credential was loaded and lines 82-96 have been executed on it
ValidityChecked == creds # <<>> /\ pc \notin {"start", "load", "validate"}

\* start-up ended inside _get_credentials (not in build())
ResolveFailed == pc = "aborted" /\ (creds = <<>> \/ ~Valid(creds[1]))

NamesSetupTool(msg) == SetupTool \in Range(msg)

IsPrefix(p, m) == Len(p) <= Len(m) /\ SubSeq(m, 1, Len(p)) = p

IsErrorResult(v) == DOMAIN v = {"error"}

PickleSuffix == token_file.suffix \in {".pickle", ".pkl"}

----------------------------------------------------------------------------
(* C1: whenever the provider or the reshaping raises inside search_files or
   get_file, the call returns {error: str(exc)} for the exception that was
   raised, no exception reaches the protocol layer, and the server keeps
   serving. *)

\* the exception the behaviour of a search call raises first
SearchRaised(b) ==
    IF b.error # NoError THEN b.error
    ELSE LET items == DictGet(b.response, "files", <<>>)
             i == CHOOSE i \in 1..Len(items) :
                    /\ MissingFields(items[i]) # {}
                    /\ \A j \in 1..(i - 1) : MissingFields(items[j]) = {}
         IN  KeyError(FirstMissing(items[i]))

\* the exception the behaviour of a fetch call raises first
FetchRaised(b) ==
    IF b.metaError # NoError THEN b.metaError
    ELSE IF b.mediaError # NoError THEN b.mediaError
    ELSE IF b.fails THEN b.chunkError
    ELSE KeyError(FirstMissing(b.metadata))

C1_ErrorsContained ==
    /\ ~fault
    /\ served > 0 =>
         /\ pc = "serving"
         /\ lastCall.out.kind = "return"
         /\ lastCall.raisedInside =>
              /\ IsErrorResult(lastCall.out.value)
              /\ lastCall.out.value.error =
                   Str(IF lastCall.tool = "search_files"
                       THEN SearchRaised(lastCall.behaviour)
                       ELSE FetchRaised(lastCall.behaviour))
    /\ failed > 0 => pc = "serving"

\* a call is served normally after an earlier call failed in the reshaping
C1_Witness ==
    /\ failed = 1 /\ served = 2
    /\ ~lastCall.raisedInside
    /\ lastCall.tool = "get_file"
    /\ "content" \in DOMAIN lastCall.out.value

(* C2: a tool call is served only after _get_credentials returned a valid
   credential and the client was constructed; when the token file is missing,
   loads in neither format or cannot be refreshed, start-up aborts and no
   call is ever served. *)
C2_ServedOnlyAfterConstruction ==
    /\ (served > 0 \/ pc = "serving") =>
         /\ raised = NoError
         /\ drive_client # None
         /\ creds # <<>> /\ Valid(creds[1])
    /\ raised # NoError => pc = "aborted"
    /\ pc = "aborted" => served = 0 /\ drive_client = None /\ raised # NoError
    /\ ( \/ ~token_file.exists
         \/ token_file.kind \notin {"json", "pickle"}
         \/ refreshOutcome \notin {"none", "ok"} ) =>
           served = 0 /\ pc \notin {"run", "serving"}

C2_Witness == served > 0 /\ refreshOutcome = "ok" /\ drive_client # None

(* C3: when the loaded credential is expired with a refresh token and the
   refresh call fails, resolve fails with "refresh failed: <cause>" naming the
   setup tool, and with no other kind of error. *)
C3_RefreshFailureWrapped ==
    (ValidityChecked /\ refreshOutcome \notin {"none", "ok"}) =>
        /\ raised.type = "RuntimeError"
        /\ IsPrefix(<<"Error", "refreshing", "token">>, raised.msg)
        /\ NamesSetupTool(raised.msg)

(* C4: one resolve makes no refresh call when the loaded access token is
   unexpired, exactly one when it is expired and a refresh token is present,
   and never more than one. *)
C4_RefreshCallCount ==
    /\ refreshCalls <= 1
    /\ ValidityChecked =>
         /\ ~LoadedCredential.expired => refreshCalls = 0
         /\ (LoadedCredential.expired /\ LoadedCredential.refresh_token # None)
               => refreshCalls = 1
         /\ (refreshOutcome = "none") = (refreshCalls = 0)

C4_Witness ==
    /\ ValidityChecked
    /\ refreshCalls = 1
    /\ refreshOutcome = "RefreshError"
    /\ pc = "aborted"

(* C5 as stated: for a JSON token file that the JSON loader loads, the legacy
   (pickle) loader is never attempted, whatever the extension. *)
C5_NeverPickleForJson ==
    (LoadersRan /\ token_file.kind = "json" /\ creds # <<>>) =>
        "pickle" \notin Range(attempts)

(* C5 amended: for a JSON token file, no loader is attempted after the JSON
   loader succeeded; with extension .pickle or .pkl the legacy loader is
   attempted once before it, with any other extension it is not attempted. *)
C5_PickleOnlyBeforeJson ==
    (LoadersRan /\ token_file.kind = "json") =>
        /\ creds # <<>>
        /\ attempts[Len(attempts)] = "json"
        /\ PickleSuffix => attempts = <<"pickle", "json">>
        /\ ~PickleSuffix => attempts = <<"json">>

C5_Witness ==
    /\ LoadersRan /\ token_file.kind = "json"
    /\ token_file.suffix = ".txt"
    /\ attempts = <<"json">>

(* C6: every start-up failure of credential resolution (not found, not
   loadable, refresh failed, invalid credentials) carries a message naming
   the setup tool. *)
C6_MessageNamesSetupTool == ResolveFailed => NamesSetupTool(raised.msg)

(* C7: get_file asks for the metadata first, issues the media request only
   after the metadata call returned, then calls next_chunk one chunk after
   another until completion; a failure at any of these yields a result with
   the error description alone, and content is returned only when every
   chunk up to completion succeeded, and then it is the whole download. *)
C7_FetchAllOrNothing ==
    lastCall.tool = "get_file" =>
        LET b == lastCall.behaviour
            calls == lastCall.calls
            v == lastCall.out.value
            broke == b.metaError # NoError \/ b.mediaError # NoError \/ b.fails
        IN  /\ calls[1] = "get"
            /\ Len(calls) >= 2 <=> b.metaError = NoError
            /\ Len(calls) >= 2 => calls[2] = "get_media"
            /\ Len(calls) >= 3 <=> (b.metaError = NoError /\ b.mediaError = NoError)
            /\ \A i \in 3..Len(calls) : calls[i] = "next_chunk"
            /\ Len(calls) >= 3 =>
                 Len(calls) - 2 = Len(b.chunks) + (IF b.fails THEN 1 ELSE 0)
            /\ lastCall.out.kind = "return"
            /\ broke => IsErrorResult(v) /\ v.error = Str(FetchRaised(b))
            /\ ~IsErrorResult(v) =>
                 /\ ~broke
                 /\ DOMAIN v = {"metadata", "content"}
                 /\ v.content = Decode(b.chunks)
                 /\ Len(calls) = 2 + Len(b.chunks)

\* the second chunk fails after the first was downloaded
C7_Witness ==
    /\ lastCall.tool = "get_file"
    /\ lastCall.behaviour.metaError = NoError
    /\ lastCall.behaviour.mediaError = NoError
    /\ lastCall.behaviour.fails
    /\ Len(lastCall.behaviour.chunks) = 1
    /\ IsErrorResult(lastCall.out.value)
    /\ Len(lastCall.calls) = 4

\* a search result whose files are the projections of items, in order
IsProjectionOf(v, items, token) ==
    /\ DOMAIN v = {"files", "next_page_token"}
    /\ Len(v.files) = Len(items)
    /\ \A i \in 1..Len(items) :
         /\ DOMAIN v.files[i] = {"id", "name", "mime_type", "web_view_link"}
         /\ v.files[i].id = items[i]["id"]
         /\ v.files[i].name = items[i]["name"]
         /\ v.files[i].mime_type = items[i]["mimeType"]
         /\ v.files[i].web_view_link = items[i]["webViewLink"]
    /\ v.next_page_token = token

(* C8 as stated: for every successful listing response with n files, search
   returns n projected entries in the provider's order and the provider's
   next-page token, or null when there is none. *)
C8_EveryListingProjected ==
    (lastCall.tool = "search_files" /\ lastCall.behaviour.error = NoError) =>
        LET resp == lastCall.behaviour.response
            items == DictGet(resp, "files", <<>>)
            v == lastCall.out.value
        IN  /\ ~IsErrorResult(v)
            /\ Len(v.files) = Len(items)
            /\ v.next_page_token = DictGet(resp, "nextPageToken", None)

(* C8 amended: for every successful listing response in which each of the n
   files carries id, name, mimeType and webViewLink, search returns n entries
   in the provider's order, each with exactly the keys id, name, mime_type,
   web_view_link and the provider's values, and next_page_token is the
   provider's token or None; when a file lacks one of the four fields the
   result is an error result naming the first missing key. *)
C8_CompleteListingProjected ==
    (lastCall.tool = "search_files" /\ lastCall.behaviour.error = NoError) =>
        LET resp == lastCall.behaviour.response
            items == DictGet(resp, "files", <<>>)
            v == lastCall.out.value
            complete == \A i \in 1..Len(items) : MissingFields(items[i]) = {}
        IN  /\ lastCall.out.kind = "return"
            /\ complete =>
                 IsProjectionOf(v, items, DictGet(resp, "nextPageToken", None))
            /\ ~complete =>
                 IsErrorResult(v) /\ v.error = Str(SearchRaised(lastCall.behaviour))

\* two complete files, one of them with an extra provider field, and no token
C8_Witness ==
    /\ lastCall.tool = "search_files"
    /\ lastCall.behaviour.error = NoError
    /\ DOMAIN lastCall.behaviour.response = {"files"}
    /\ Len(lastCall.behaviour.response.files) = 2
    /\ lastCall.behaviour.response.files[1]["id"] = "f2"
    /\ lastCall.behaviour.response.files[2]["id"] = "f1"
    /\ ~IsErrorResult(lastCall.out.value)
    /\ lastCall.out.value.next_page_token = None

(* C9: after loading, the credential is returned unchanged when its access
   token is unexpired, refreshed when it is expired with a refresh token, and
   "invalid credentials" is raised only when it is expired without a refresh
   token; a credential holding a refresh token never ends in "invalid
   credentials". *)
C9_InvalidOnlyWhenExpiredWithoutRefreshToken ==
    ValidityChecked =>
        /\ raised.msg = InvalidCredentialsMsg =>
             (LoadedCredential.expired /\ LoadedCredential.refresh_token = None)
        /\ LoadedCredential.refresh_token # None =>
             raised.msg # InvalidCredentialsMsg

(* C10: on an existing file the loaders are attempted in the order the
   extension gives, a loader that raises is followed by the next one, the
   credential used is the one the first loader that did not raise returned,
   whether loading succeeds does not depend on the extension, and "could not
   load" is raised exactly when both loaders were attempted and both raised. *)
C10_FirstSuccessWins ==
    LoadersRan =>
        LET order == LoaderSequence(token_file.suffix)
            n == Len(attempts)
        IN  /\ n \in 1..2
            /\ attempts = SubSeq(order, 1, n)
            /\ \A i \in 1..(n - 1) : CallLoader(attempts[i], token_file).kind = "raise"
            /\ creds # <<>> =>
                 /\ CallLoader(attempts[n], token_file).kind = "return"
                 /\ pc = "validate" =>
                      creds = <<CallLoader(attempts[n], token_file).value>>
            /\ (creds # <<>>) = (token_file.kind \in {"json", "pickle"})
            /\ (raised.msg = CouldNotLoadMsg) =
                 ( /\ Range(attempts) = {"json", "pickle"}
                   /\ \A l \in {"json", "pickle"} :
                        CallLoader(l, token_file).kind = "raise" )
            /\ creds = <<>> => raised.msg = CouldNotLoadMsg /\ pc = "aborted"

\* the loader the extension puts first raised and the second one loaded the file
C10_Witness ==
    /\ LoadersRan
    /\ token_file.suffix = ".json"
    /\ token_file.kind = "pickle"
    /\ attempts = <<"json", "pickle">>
    /\ creds # <<>>

====
